---- MODULE Spec2Model ----
(***************************************************************************)
(* Model of app.py (barbell warmup and plate-loading calculator).          *)
(*                                                                         *)
(* All weights are integers counted in grams (1 kg = 1000), so that the    *)
(* float arithmetic of the program is exact in the model: the inputs are   *)
(* taken on a grid of even grams, which makes (total - bar) / 2 a whole    *)
(* number of grams.  A percentage is kept as its numerator over 100.       *)
(*                                                                         *)
(* The program is stateless: every call is independent.  The state of the  *)
(* model is therefore the one call that has been made: which function      *)
(* (op), with which inputs (arg), and what it produced (ret).              *)
(***************************************************************************)
EXTENDS Integers, Sequences, FiniteSets

VARIABLES op, arg, ret, core_called

vars == <<op, arg, ret, core_called>>

(***************************************************************************)
(* Bounds of the model (in kg).                                            *)
(***************************************************************************)
MaxTarget == 140
MaxNegTarget == 1
MaxLoad == 62
MaxBar == 3

(* Target weights: every even number of grams in -MaxNegTarget..MaxTarget kg *)
Targets == { 2 * k : k \in (0 - MaxNegTarget * 500) .. (MaxTarget * 500) }

(* Loads per side handed to plate_selection directly: steps of 50 g *)
Loads == { 50 * k : k \in (0 - 20) .. (MaxLoad * 20) }

(* Totals and bars handed to plate_weight directly: steps of 500 g / 5 kg *)
Totals == { 500 * k : k \in 0 .. (MaxLoad * 2) }
Bars == { 5000 * k : k \in 1 .. (MaxBar + 1) }

(***************************************************************************)
(* Program constants.                                                      *)
(***************************************************************************)
BarWeight == 20000

(* variant: the list is not kept largest first *)
plate_weights_unsorted == <<10000, 20000, 5000, 2500>>

(* variant: the smallest plate is missing from the list *)
plate_weights_no_small == <<20000, 10000, 5000>>

plate_weights == <<20000, 10000, 5000, 2500>>

(* variant: ties rounded up, floor(x + 1/2) *)
round_half_up(n, d) == (2 * n + d) \div (2 * d)

(***************************************************************************)
(* Python's built-in round(x) for x = n / d (d > 0): the nearest integer,  *)
(* a tie going to the even neighbour.                                      *)
(***************************************************************************)
round(n, d) ==
    LET q == n \div d
        r == n % d
    IN  IF 2 * r < d THEN q
        ELSE IF 2 * r > d THEN q + 1
        ELSE IF q % 2 = 0 THEN q ELSE q + 1

(***************************************************************************)
(* Python's round(x, 2) for a non-negative x in grams: the set of results  *)
(* it can give.  The result is the multiple of 10 g nearest to the float   *)
(* x.  A tie (x ending in 5 g) is an exact tie of the float only when x is *)
(* a multiple of 1/8 kg, and then goes to the even neighbour; any other    *)
(* tie is decided by the representation error of the float, so both        *)
(* neighbours are possible.                                                *)
(***************************************************************************)
round2(x) ==
    IF x % 10 = 5 /\ x % 125 # 0
    THEN {x - 5, x + 5}
    ELSE {round(x, 10) * 10}

(* round(target_weight * pct / 5) * 5, pct given in hundredths *)
warmup_weight(target_weight, pct) ==
    round(target_weight * pct, 100 * 5000) * 5000

(* variant: the first two results returned in the wrong order *)
calculate_warmup_weights_swapped(target_weight) ==
    << warmup_weight(target_weight, 65),
       warmup_weight(target_weight, 45),
       warmup_weight(target_weight, 85) >>

calculate_warmup_weights(target_weight) ==
    << warmup_weight(target_weight, 45),
       warmup_weight(target_weight, 65),
       warmup_weight(target_weight, 85) >>

(* variant: the check against the bar weight is missing *)
plate_weight_unchecked(total_weight, bar_weight) ==
    [err |-> "none", val |-> (total_weight - bar_weight) \div 2]

(* variant: a total equal to the bar weight is refused as well *)
plate_weight_strict(total_weight, bar_weight) ==
    IF total_weight <= bar_weight
    THEN [err |-> "ValueError", val |-> 0]
    ELSE [err |-> "none", val |-> (total_weight - bar_weight) \div 2]

(* variant: the load is not divided between the two sides *)
plate_weight_unhalved(total_weight, bar_weight) ==
    IF total_weight < bar_weight
    THEN [err |-> "ValueError", val |-> 0]
    ELSE [err |-> "none", val |-> total_weight - bar_weight]

(* err = "ValueError" models the raise of line 36 *)
plate_weight(total_weight, bar_weight) ==
    IF total_weight < bar_weight
    THEN [err |-> "ValueError", val |-> 0]
    ELSE [err |-> "none", val |-> (total_weight - bar_weight) \div 2]

(* variant: a plate is taken only while strictly more than it remains *)
RECURSIVE select_loop_strict(_, _, _, _)
select_loop_strict(plates, i, remaining_weight, selected_plates) ==
    IF i > Len(plates) THEN selected_plates
    ELSE IF remaining_weight > plates[i]
    THEN select_loop_strict(plates, i, remaining_weight - plates[i],
                            Append(selected_plates, plates[i]))
    ELSE select_loop_strict(plates, i + 1, remaining_weight, selected_plates)

(* the for/while loops of plate_selection: i is the position in plates *)
RECURSIVE select_loop(_, _, _, _)
select_loop(plates, i, remaining_weight, selected_plates) ==
    IF i > Len(plates) THEN selected_plates
    ELSE IF remaining_weight >= plates[i]
    THEN select_loop(plates, i, remaining_weight - plates[i],
                     Append(selected_plates, plates[i]))
    ELSE select_loop(plates, i + 1, remaining_weight, selected_plates)

plate_selection(weight_to_load) ==
    select_loop(plate_weights, 1, weight_to_load, <<>>)

(* one computed entry of the plan; wps is the rounded weight per side *)
workout_set(set, reps, weight, wps) ==
    [set |-> set, reps |-> reps, weight |-> weight, weight_per_side |-> wps,
     plates |-> plate_selection(plate_weight(weight, BarWeight).val)]

bar_only_set ==
    [set |-> "2 sets", reps |-> 5, weight |-> BarWeight, weight_per_side |-> 0,
     plates |-> "None (just the bar)"]

(* variant: the 65% and 85% entries are listed in the wrong order *)
workout_plan_misordered(w45, w65, w85, target_weight, r) ==
    [warmup_sets |->
        << bar_only_set,
           workout_set("1 set", 5, w45, r[1]),
           workout_set("1 set", 2, w85, r[3]),
           workout_set("1 set", 3, w65, r[2]) >>,
     target |->
        [weight |-> target_weight,
         weight_per_side |-> r[4],
         plates |-> plate_selection(plate_weight(target_weight, BarWeight).val)]]

(* the dict literal of get_workout_data; r holds the four rounded loads *)
workout_plan(w45, w65, w85, target_weight, r) ==
    [warmup_sets |->
        << bar_only_set,
           workout_set("1 set", 5, w45, r[1]),
           workout_set("1 set", 3, w65, r[2]),
           workout_set("1 set", 2, w85, r[3]) >>,
     target |->
        [weight |-> target_weight,
         weight_per_side |-> r[4],
         plates |-> plate_selection(plate_weight(target_weight, BarWeight).val)]]

(***************************************************************************)
(* get_workout_data: the set of outcomes of the call (more than one only   *)
(* where round2 is undetermined).  Any of the four plate_weight calls that *)
(* raises makes the whole call raise.                                      *)
(***************************************************************************)
get_workout_data(target_weight) ==
    LET w == calculate_warmup_weights(target_weight)
        all == <<w[1], w[2], w[3], target_weight>>
    IN  IF \E i \in 1..4 : plate_weight(all[i], BarWeight).err # "none"
        THEN { [err |-> "ValueError", data |-> <<>>] }
        ELSE { [err |-> "none",
                data |-> workout_plan(w[1], w[2], w[3], target_weight, r)]
               : r \in round2(plate_weight(all[1], BarWeight).val)
                       \X round2(plate_weight(all[2], BarWeight).val)
                       \X round2(plate_weight(all[3], BarWeight).val)
                       \X round2(plate_weight(all[4], BarWeight).val) }

(***************************************************************************)
(* The request payloads of /api/calculate.  json is the type of the JSON   *)
(* body ("object" or "array": any JSON value that is not an object), kind  *)
(* what it holds under "target_weight", val the number when kind is        *)
(* "number".                                                               *)
(***************************************************************************)
Payloads ==
    { [json |-> "array", kind |-> "absent", val |-> 0] }
    \cup { [json |-> "object", kind |-> k, val |-> 0]
             : k \in {"absent", "text", "list", "nan", "inf", "neginf"} }
    \cup { [json |-> "object", kind |-> "number", val |-> t] : t \in Targets }

(* float(data.get('target_weight')): the exception it raises, or "none" *)
float_err(payload) ==
    IF payload.json # "object" THEN "AttributeError"
    ELSE IF payload.kind \in {"absent", "list"} THEN "TypeError"
    ELSE IF payload.kind = "text" THEN "ValueError"
    ELSE "none"

(* target_weight <= 0 for a parsed float (nan compares false) *)
not_positive(payload) ==
    \/ payload.kind = "neginf"
    \/ payload.kind = "number" /\ payload.val <= 0

(* get_workout_data on a parsed float: round() raises on nan and inf *)
core_outcomes(payload) ==
    IF payload.kind = "nan" THEN { [err |-> "ValueError", data |-> <<>>] }
    ELSE IF payload.kind = "inf" THEN { [err |-> "OverflowError", data |-> <<>>] }
    ELSE get_workout_data(payload.val)

(* the except clauses of calculate *)
error_response(err) ==
    IF err \in {"ValueError", "TypeError"}
    THEN [status |-> 400, error |-> "Invalid target weight", data |-> <<>>]
    ELSE [status |-> 500, error |-> err, data |-> <<>>]

(***************************************************************************)
(* calculate: the set of pairs <<response, reached the core>>.             *)
(***************************************************************************)
calculate(payload) ==
    IF float_err(payload) # "none"
    THEN { <<error_response(float_err(payload)), FALSE>> }
    ELSE IF not_positive(payload)
    THEN { << [status |-> 400, error |-> "Target weight must be greater than 0",
               data |-> <<>>], FALSE >> }
    ELSE { << IF o.err = "none"
              THEN [status |-> 200, error |-> "", data |-> o.data]
              ELSE error_response(o.err), TRUE >>
           : o \in core_outcomes(payload) }

(***************************************************************************)
(* The state machine: one call from the initial state.                     *)
(***************************************************************************)
Init ==
    /\ op = "none"
    /\ arg = <<>>
    /\ ret = <<>>
    /\ core_called = FALSE

CalculateWarmupWeights ==
    /\ op = "none"
    /\ \E t \in Targets :
         /\ arg' = <<t>>
         /\ ret' = calculate_warmup_weights(t)
    /\ op' = "calculate_warmup_weights"
    /\ UNCHANGED core_called

PlateWeight ==
    /\ op = "none"
    /\ \E total \in Totals, bar \in Bars :
         /\ arg' = <<total, bar>>
         /\ ret' = plate_weight(total, bar)
    /\ op' = "plate_weight"
    /\ UNCHANGED core_called

PlateSelection ==
    /\ op = "none"
    /\ \E l \in Loads :
         /\ arg' = <<l>>
         /\ ret' = plate_selection(l)
    /\ op' = "plate_selection"
    /\ UNCHANGED core_called

GetWorkoutData ==
    /\ op = "none"
    /\ \E t \in Targets :
         /\ arg' = <<t>>
         /\ ret' \in get_workout_data(t)
    /\ op' = "get_workout_data"
    /\ core_called' = TRUE

Calculate ==
    /\ op = "none"
    /\ \E p \in Payloads :
         /\ arg' = <<p>>
         /\ \E o \in calculate(p) :
              /\ ret' = o[1]
              /\ core_called' = o[2]
    /\ op' = "calculate"

Next ==
    \/ CalculateWarmupWeights
    \/ PlateWeight
    \/ PlateSelection
    \/ GetWorkoutData
    \/ Calculate

Spec == Init /\ [][Next]_vars

(***************************************************************************)
(* Vocabulary of the properties.                                           *)
(***************************************************************************)
RECURSIVE SumSeq(_)
SumSeq(s) == IF s = <<>> THEN 0 ELSE s[1] + SumSeq(Tail(s))

Abs(x) == IF x < 0 THEN 0 - x ELSE x

Denominations == {20000, 10000, 5000, 2500}

(* w is t * pct / 100 brought to the nearest multiple of 5 kg, a value     *)
(* half-way between two multiples going to the even multiple               *)
RoundedTo5(w, t, pct) ==
    /\ w % 5000 = 0
    /\ Abs(100 * w - t * pct) <= 250000
    /\ Abs(100 * w - t * pct) = 250000 => (w \div 5000) % 2 = 0

(* x / d to the nearest integer, a value half-way going away from zero *)
RoundHalfAway(n, d) ==
    IF n >= 0 THEN (2 * n + d) \div (2 * d)
    ELSE 0 - ((2 * (0 - n) + d) \div (2 * d))

NonIncreasing(s) == \A i \in 1..(Len(s) - 1) : s[i] >= s[i + 1]

Returned == op = "get_workout_data" /\ ret.err = "none"

(* the four computed entries of a returned plan, in plan order *)
ComputedSets(data) ==
    << data.warmup_sets[2], data.warmup_sets[3], data.warmup_sets[4],
       data.target >>

(* the plan that the contract describes for target t *)
IsPlanFor(data, t) ==
    /\ DOMAIN data = {"warmup_sets", "target"}
    /\ Len(data.warmup_sets) = 4
    /\ data.warmup_sets[1].weight = 20000
    /\ data.warmup_sets[1].weight_per_side = 0
    /\ data.warmup_sets[1].plates = "None (just the bar)"
    /\ data.warmup_sets[1].reps = 5
    /\ data.warmup_sets[2].reps = 5
    /\ RoundedTo5(data.warmup_sets[2].weight, t, 45)
    /\ data.warmup_sets[3].reps = 3
    /\ RoundedTo5(data.warmup_sets[3].weight, t, 65)
    /\ data.warmup_sets[4].reps = 2
    /\ RoundedTo5(data.warmup_sets[4].weight, t, 85)
    /\ data.target.weight = t

(***************************************************************************)
(* C1 (as stated): for every target t > 0, get_workout_data(t) returns a   *)
(* plan of exactly 5 entries in the order bar-only, 45%, 65%, 85%, target. *)
(***************************************************************************)
C1_PlanForEveryPositiveTarget ==
    (op = "get_workout_data" /\ arg[1] > 0) =>
        (ret.err = "none" /\ IsPlanFor(ret.data, arg[1]))

(***************************************************************************)
(* C1 (amended): for every target t > 0 with t * 0.45 / 5 >= 3.5 (the 45%  *)
(* warmup weight reaches the bar weight), get_workout_data(t) returns a    *)
(* plan of exactly 5 entries in the order bar-only, 45%, 65%, 85%, target; *)
(* for every other t > 0 it raises the invalid-weight error instead.       *)
(***************************************************************************)
C1_PlanShape ==
    (op = "get_workout_data" /\ arg[1] > 0) =>
        IF arg[1] * 45 * 2 >= 7 * 500000
        THEN ret.err = "none" /\ IsPlanFor(ret.data, arg[1])
        ELSE ret.err = "ValueError"

C1_Witness ==
    /\ Returned
    /\ arg[1] = 100000
    /\ Len(ret.data.warmup_sets) = 4
    /\ ret.data.warmup_sets[3].weight = 65000

(***************************************************************************)
(* C2: plate_weight(total, bar) fails with the invalid-weight error        *)
(* exactly when total < bar, and otherwise returns (total - bar) / 2;      *)
(* total = bar gives 0, and with bar 20, total 100 gives 40 and total 15   *)
(* fails.                                                                  *)
(***************************************************************************)
C2_PlateWeight ==
    op = "plate_weight" =>
        /\ (ret.err = "ValueError") <=> (arg[1] < arg[2])
        /\ (ret.err = "none") <=> (arg[1] >= arg[2])
        /\ ret.err = "none" => 2 * ret.val = arg[1] - arg[2]
        /\ arg[1] = arg[2] => (ret.err = "none" /\ ret.val = 0)
        /\ arg = <<100000, 20000>> => ret = [err |-> "none", val |-> 40000]
        /\ arg = <<15000, 20000>> => ret.err = "ValueError"

C2_Witness ==
    /\ op = "plate_weight"
    /\ arg = <<20000, 20000>>
    /\ ret = [err |-> "none", val |-> 0]

C4_HalfAwayFromZero ==
    op = "calculate_warmup_weights" =>
        /\ ret[1] = RoundHalfAway(arg[1] * 45, 500000) * 5000
        /\ ret[2] = RoundHalfAway(arg[1] * 65, 500000) * 5000
        /\ ret[3] = RoundHalfAway(arg[1] * 85, 500000) * 5000

(***************************************************************************)
(* C4 (amended): each output of calculate_warmup_weights(t) is             *)
(* t * pct / 5 rounded to the nearest integer, ties to the even integer,   *)
(* times 5; every output is a multiple of 5, t = 100 gives (45, 65, 85)    *)
(* and t = 140 gives (65, 90, 120).                                        *)
(***************************************************************************)
C4_HalfToEven ==
    op = "calculate_warmup_weights" =>
        /\ Len(ret) = 3
        /\ RoundedTo5(ret[1], arg[1], 45)
        /\ RoundedTo5(ret[2], arg[1], 65)
        /\ RoundedTo5(ret[3], arg[1], 85)
        /\ arg[1] = 100000 => ret = <<45000, 65000, 85000>>
        /\ arg[1] = 140000 => ret = <<65000, 90000, 120000>>

C4_Witness ==
    /\ op = "calculate_warmup_weights"
    /\ arg[1] = 50000
    /\ ret = <<20000, 30000, 40000>>

(***************************************************************************)
(* C5 (as stated): for every set of a returned plan,                       *)
(* 2 * sum(plates) <= weight_per_side and                                  *)
(* weight_per_side - 2 * sum(plates) < 2 * 2.5.  (The bar-only set holds   *)
(* no plate list and is left out.)                                         *)
(***************************************************************************)
C5_TwiceTheSum ==
    Returned =>
        \A i \in 1..4 :
            LET s == ComputedSets(ret.data)[i]
            IN  /\ 2 * SumSeq(s.plates) <= s.weight_per_side
                /\ s.weight_per_side - 2 * SumSeq(s.plates) < 2 * 2500

(***************************************************************************)
(* C5 (amended): for every computed set of a returned plan (the three      *)
(* warmups and the target), sum(plates) <= weight_per_side and             *)
(* weight_per_side - sum(plates) <= 2.5, and for the load on both sides    *)
(* 2 * sum(plates) <= weight - 20 and weight - 20 - 2 * sum(plates) < 5.   *)
(***************************************************************************)
C5_SumWithinLoad ==
    Returned =>
        \A i \in 1..4 :
            LET s == ComputedSets(ret.data)[i]
            IN  /\ SumSeq(s.plates) <= s.weight_per_side
                /\ s.weight_per_side - SumSeq(s.plates) <= 2500
                /\ 2 * SumSeq(s.plates) <= s.weight - 20000
                /\ s.weight - 20000 - 2 * SumSeq(s.plates) < 2 * 2500

C5_Witness ==
    /\ Returned
    /\ arg[1] = 104998
    /\ ret.data.target.plates = <<20000, 20000>>
    /\ ret.data.target.weight_per_side = 42500

(***************************************************************************)
(* C6: in /api/calculate, every request whose target weight is missing,    *)
(* non-numeric or not a positive number is answered 400 and never reaches  *)
(* get_workout_data; an invalid-weight error of the core is answered 400;  *)
(* only other unexpected failures are answered 500.                        *)
(***************************************************************************)
C6_AdapterRejects ==
    op = "calculate" =>
        LET p == arg[1]
            unusable == \/ p.kind \in {"absent", "text", "list", "nan", "neginf"}
                        \/ p.kind = "number" /\ p.val <= 0
        IN  /\ unusable => (ret.status = 400 /\ ~core_called)
            /\ (p.kind = "number" /\ p.val > 0 /\ p.val * 45 * 2 < 7 * 500000)
                  => ret.status = 400
            /\ ret.status = 500 => ~unusable

C8_RaisesBelowBar ==
    op = "get_workout_data" =>
        /\ (ret.err = "ValueError") <=>
              (\E k \in (0 - 1)..3 : RoundedTo5(5000 * k, arg[1], 45))
        /\ (ret.err = "none") <=>
              (\E k \in 4..MaxTarget : RoundedTo5(5000 * k, arg[1], 45))
        /\ (arg[1] > 0 /\ arg[1] % 1000 = 0) =>
              ((ret.err = "ValueError") <=> (arg[1] <= 38000))

C8_Witness ==
    /\ op = "get_workout_data"
    /\ arg[1] = 38000
    /\ ret.err = "ValueError"

(***************************************************************************)
(* C9: in every returned plan each of the three warmup sets is loaded      *)
(* without loss, sum(plates) = weight_per_side and                         *)
(* 20 + 2 * sum(plates) = weight; the target set is loaded without loss    *)
(* if and only if the target is a multiple of 5.                           *)
(***************************************************************************)
C9_LosslessWarmups ==
    Returned =>
        /\ \A i \in 1..3 :
              LET s == ComputedSets(ret.data)[i]
              IN  /\ SumSeq(s.plates) = s.weight_per_side
                  /\ 20000 + 2 * SumSeq(s.plates) = s.weight
        /\ LET s == ret.data.target
           IN  (/\ SumSeq(s.plates) = s.weight_per_side
                /\ 20000 + 2 * SumSeq(s.plates) = s.weight)
               <=> (arg[1] % 5000 = 0)

C9_Witness ==
    /\ Returned
    /\ arg[1] = 100008
    /\ SumSeq(ret.data.warmup_sets[2].plates) = 12500
    /\ ret.data.target.weight_per_side = 40000
    /\ ret.data.target.plates = <<20000, 20000>>

(***************************************************************************)
(* C10: in every returned plan the total weights are non-decreasing in     *)
(* plan order: 20 <= w45 <= w65 <= w85 <= t.                               *)
(***************************************************************************)
C10_NonDecreasingWeights ==
    Returned =>
        /\ ret.data.warmup_sets[1].weight = 20000
        /\ ret.data.warmup_sets[1].weight <= ret.data.warmup_sets[2].weight
        /\ ret.data.warmup_sets[2].weight <= ret.data.warmup_sets[3].weight
        /\ ret.data.warmup_sets[3].weight <= ret.data.warmup_sets[4].weight
        /\ ret.data.warmup_sets[4].weight <= ret.data.target.weight
        /\ ret.data.target.weight = arg[1]

C10_Witness ==
    /\ Returned
    /\ arg[1] = 40000
    /\ ret.data.warmup_sets[2].weight = 20000
    /\ ret.data.warmup_sets[3].weight = 25000
    /\ ret.data.warmup_sets[4].weight = 35000

====
